---------------------------- MODULE Spec2Model ----------------------------
(***************************************************************************)
(* State-machine model of the Google Meet artifact fetchers                *)
(* (scripts/get_transcript.py and scripts/get_smart_notes.py).             *)
(*                                                                         *)
(* One invocation of main() is modelled per behaviour.  The variable       *)
(* script says which of the two programs runs.  Steps are taken at the     *)
(* remote calls and at the sleeps of retry_with_backoff; everything main   *)
(* does between two remote calls belongs to the step that follows the      *)
(* call.  Time stamps are whole hours.                                     *)
(***************************************************************************)
EXTENDS Integers, Sequences, FiniteSets, TLC

(***************************************************************************)
(* Program constants.                                                      *)
(***************************************************************************)
DEFAULT_TIME_WINDOW_HOURS == 4
MAX_RETRIES == 3
RETRY_BASE_DELAY_SECONDS == 1

(***************************************************************************)
(* Bounds of the model.                                                    *)
(***************************************************************************)
\* hours run from 0 to MaxTime: a session starts at one of them, and so
\* does --before
MaxTime == 3
\* --after is one of the hours 1..MaxAfter (hour 0 lies before every window)
MaxAfter == 1
\* longest list the session query returns
MaxSessions == 2
\* longest list the artifact-metadata query returns
MaxArtifacts == 2
\* most pages the raw-entry listing serves before it must stop
MaxPages == 2
\* most entries on one page
MaxPageLen == 1

\* an absent time stamp (None), and an argument that does not parse
NoTime == 0 - 1
BadTime == 0 - 2

Scripts == {"transcript", "notes"}

(***************************************************************************)
(* Exceptions.  type is the Python class, status the HTTP status of an     *)
(* HttpError (0 otherwise), at the number of the invocation of the wrapped *)
(* function that raised it (so that two failures of the same class on      *)
(* different attempts are different objects).                              *)
(***************************************************************************)
Exc(t, s, n) == [type |-> t, status |-> s, at |-> n]
NoExc == Exc("None", 0, 0)

\* what a remote call may raise (classes of google.api_core.exceptions,
\* requests.exceptions and googleapiclient.errors.HttpError with a status)
RemoteFailures ==
    { <<"ServiceUnavailable", 0>>, <<"DeadlineExceeded", 0>>,
      <<"Timeout", 0>>, <<"ConnectionError", 0>>,
      <<"ResourceExhausted", 0>>, <<"NotFound", 0>>,
      <<"PermissionDenied", 0>>, <<"InternalServerError", 0>>,
      <<"HttpError", 403>>, <<"HttpError", 404>>,
      <<"HttpError", 429>>, <<"HttpError", 500>> }

(***************************************************************************)
(* retry_with_backoff                                                      *)
(***************************************************************************)
\* the default of the retryable_exceptions parameter, per script
retryable_exceptions(s) ==
    IF s = "transcript"
    THEN {"ServiceUnavailable", "DeadlineExceeded"}
    ELSE {"ServiceUnavailable", "DeadlineExceeded", "Timeout", "ConnectionError"}

\* faulty variant: the else of "if e.resp.status == 429" is missing
ExceptClauseNoReraise(s, e) ==
    IF e.type \in retryable_exceptions(s) THEN "retryable"
    ELSE IF e.type = "ResourceExhausted" THEN "rate_limited"
    ELSE IF e.type = "HttpError" THEN "rate_limited_http"
    ELSE "uncaught"

\* the except clauses of wrapper, in order: which of them takes e, if any
ExceptClause(s, e) ==
    IF e.type \in retryable_exceptions(s) THEN "retryable"
    ELSE IF e.type = "ResourceExhausted" THEN "rate_limited"
    ELSE IF e.type = "HttpError"
         THEN IF e.status = 429 THEN "rate_limited_http" ELSE "reraise"
    ELSE "uncaught"

IsRetried(s, e) ==
    ExceptClause(s, e) \in {"retryable", "rate_limited", "rate_limited_http"}

\* 2 ** n
RECURSIVE Pow2(_)
Pow2(n) == IF n <= 0 THEN 1 ELSE 2 * Pow2(n - 1)

\* faulty variant: the delay grows by base_delay each time
DelayLinear(a) == RETRY_BASE_DELAY_SECONDS * (a + 1)

\* delay = base_delay * (2 ** attempt)
Delay(a) == RETRY_BASE_DELAY_SECONDS * Pow2(a)

\* faulty variant: the wrapper sleeps after the last attempt too
SleepsAfterAlways(a) == TRUE

\* if attempt < max_retries: ... time.sleep(delay)
SleepsAfter(a) == a < MAX_RETRIES

\* faulty variant: only the first failure is kept
LastExceptionFirst(prev, e) == IF prev = NoExc THEN e ELSE prev

\* last_exception = e
LastException(prev, e) == e


(***************************************************************************)
(* State.                                                                  *)
(***************************************************************************)
VARIABLES
    script,          \* which program runs: "transcript" or "notes"
    pc,              \* where main is: the remote call it makes next
    afterArg,        \* --after as given: an hour, or BadTime
    beforeArg,       \* --before as given: an hour, NoTime (absent) or BadTime
    after,           \* main's after  (NoTime until parsed)
    before,          \* main's before (NoTime until parsed or defaulted)
    status,          \* the wrapper in progress: "idle", "call", "sleep",
                     \*   "returned" or "raised" (the last two: back in main)
    attempt,         \* wrapper's loop variable
    last_exception,  \* wrapper's last_exception (NoExc is None)
    raised,          \* the exception that left the call, when status = "raised"
    invocations,     \* how often the function of this stage was invoked
    sleeps,          \* the delays slept in this stage, in order
    observed,        \* the exception the latest invocation raised (NoExc: none)
    answered,        \* what the remote service answered to the latest request
    records,         \* the list the latest session query returned
    record,          \* main's record
    artifact,        \* main's transcript / note (the first of the list)
    listed,          \* the list the latest artifact-metadata query returned
    doc_url,         \* main's doc_url
    text,            \* main's transcript_text / notes_text
    entries,         \* get_transcript_entries' entries
    pages,           \* pages get_transcript_entries fetched in this invocation
    served,          \* those pages, in the order they were served
    fetched,         \* most pages any invocation of this stage has fetched
    outcome,         \* what was printed, and the exit status
    called,          \* the remote calls made so far
    config,          \* meet_auth: the client secrets file exists
    store,           \* meet_auth: what the token file holds
    cred,            \* meet_auth: each invocation of get_credentials
    issued,          \* meet_auth: the tokens issued so far (the latest one)
    overlapped       \* meet_auth: an invocation ran while another was underway

vars == << script, pc, afterArg, beforeArg, after, before, status, attempt,
           last_exception, raised, invocations, sleeps, observed, answered,
           records, record, artifact, listed, doc_url, text, entries, pages,
           served, fetched, outcome, called, config, store, cred, issued,
           overlapped >>

credVars == << config, store, cred, issued, overlapped >>

execVars == << status, attempt, last_exception, raised, invocations, sleeps,
               observed, answered >>

\* a conference record: id stands for record.name; naive says start_time
\* carries no tzinfo
\* the answer to a request: a failure of RemoteFailures (or, for the
\* smartNotes request, one of NotesFailures with status 0), Answered when a
\* response came, NoAnswer before the first request of a stage
NoAnswer == << "", 0 >>
Answered == << "ok", 0 >>

NoRecord == [id |-> 0, start_time |-> NoTime, naive |-> FALSE]
\* a transcript or smart note: dest is what docs_destination holds
NoArtifact == [state |-> "None", dest |-> "none"]

\* no artifact-metadata list has been returned (an empty list is << >>)
NoList == << NoArtifact >>

NoOutcome ==
    [found |-> FALSE, error |-> "", message |-> "", exit |-> NoTime,
     conference_id |-> 0, state |-> "", doc_url |-> "", content |-> << >>]

\* faulty variant: the process ends with status 0 after an error
OutputErrorExitZero(code, msg, conf, st, url) ==
    [found |-> FALSE, error |-> code, message |-> msg, exit |-> 0,
     conference_id |-> conf, state |-> st, doc_url |-> url, content |-> << >>]

\* output_error: the JSON object printed, then sys.exit(1)
OutputError(code, msg, conf, st, url) ==
    [found |-> FALSE, error |-> code, message |-> msg, exit |-> 1,
     conference_id |-> conf, state |-> st, doc_url |-> url, content |-> << >>]

\* output_success: the JSON object printed; main then returns (exit status 0)
OutputSuccess(conf, st, url, content) ==
    [found |-> TRUE, error |-> "", message |-> "", exit |-> 0,
     conference_id |-> conf, state |-> st, doc_url |-> url, content |-> content]

(***************************************************************************)
(* meet_auth: the token file and the invocations of get_credentials.       *)
(* Tokens are numbered in the order they are issued; 0 is the one the file *)
(* held at the start.                                                      *)
(***************************************************************************)
\* invocations of get_credentials that may run side by side
NumProcs == 2
Procs == 1..NumProcs

\* the token file: absent, just opened for writing (empty), not a valid
\* JSON token, or a token
NoFile == [kind |-> "absent", token |-> 0, refresh_token |-> FALSE]
EmptyFile == [kind |-> "partial", token |-> 0, refresh_token |-> FALSE]
InvalidFile == [kind |-> "invalid", token |-> 0, refresh_token |-> FALSE]
TokenFile(t, r) == [kind |-> "token", token |-> t, refresh_token |-> r]

\* creds: None, or a Credentials object
NoCreds == [kind |-> "none", token |-> 0, refresh_token |-> FALSE,
            expired |-> FALSE]
Credentials(t, r, x) == [kind |-> "creds", token |-> t, refresh_token |-> r,
                         expired |-> x]

\* an invocation that has not begun
IdleCred == [pc |-> "idle", creds |-> NoCreds, refreshed |-> FALSE,
             rejected |-> FALSE, result |-> "none"]

\* no invocation of get_credentials is followed step by step
CredsIdle ==
    /\ config = TRUE
    /\ store = NoFile
    /\ cred = [p \in Procs |-> IdleCred]
    /\ issued = 0
    /\ overlapped = FALSE

Init ==
    /\ script \in Scripts
    /\ pc = "parse"
    /\ afterArg \in {BadTime} \cup (1..MaxAfter)
    /\ beforeArg \in {NoTime, BadTime} \cup (0..MaxTime)
    /\ after = NoTime
    /\ before = NoTime
    /\ status = "idle"
    /\ attempt = 0
    /\ last_exception = NoExc
    /\ raised = NoExc
    /\ invocations = 0
    /\ sleeps = << >>
    /\ observed = NoExc
    /\ answered = NoAnswer
    /\ records = << >>
    /\ record = NoRecord
    /\ artifact = NoArtifact
    /\ doc_url = ""
    /\ text = << >>
    /\ entries = << >>
    /\ pages = 0
    /\ listed = NoList
    /\ served = << >>
    /\ fetched = 0
    /\ outcome = NoOutcome
    /\ called = {}
    /\ CredsIdle

\* main is over: output_error exited, or output_success printed
Finish(o) ==
    /\ pc' = "done"
    /\ outcome' = o

\* the wrapper of the next stage is entered: for attempt in range(...), first pass
EnterWrapper ==
    /\ status' = "call"
    /\ attempt' = 0
    /\ last_exception' = NoExc
    /\ raised' = NoExc
    /\ invocations' = 0
    /\ sleeps' = << >>
    /\ observed' = NoExc
    /\ answered' = NoAnswer

\* no wrapper is active
LeaveWrapper ==
    /\ status' = "idle"
    /\ attempt' = 0
    /\ last_exception' = NoExc
    /\ raised' = NoExc
    /\ invocations' = 0
    /\ sleeps' = << >>
    /\ observed' = NoExc
    /\ answered' = NoAnswer

(***************************************************************************)
(* main: arguments                                                         *)
(***************************************************************************)
\* before = after + timedelta(hours=DEFAULT_TIME_WINDOW_HOURS)
DefaultBefore(a) == a + DEFAULT_TIME_WINDOW_HOURS

\* main, from parse_args to the call of get_credentials
ParseArgs ==
    /\ pc = "parse"
    /\ IF afterArg = BadTime
       THEN /\ Finish(OutputError("invalid_timestamp", "after", 0, "", ""))
            /\ UNCHANGED << after, before >>
       ELSE IF beforeArg = BadTime
       THEN /\ Finish(OutputError("invalid_timestamp", "before", 0, "", ""))
            /\ after' = afterArg
            /\ UNCHANGED before
       ELSE /\ after' = afterArg
            /\ before' = IF beforeArg = NoTime THEN DefaultBefore(afterArg)
                                               ELSE beforeArg
            /\ pc' = "auth"
            /\ UNCHANGED outcome
    /\ UNCHANGED << script, afterArg, beforeArg, execVars, records, record,
                    artifact, doc_url, text, entries, pages, called >>
    /\ UNCHANGED << credVars, listed, served, fetched >>

\* main: creds = get_credentials(), and its two except clauses
Authenticate ==
    /\ pc = "auth"
    /\ called' = called \cup {"credentials"}
    /\ \E r \in {"ok", "FileNotFoundError", "RefreshError"} :
         IF r = "ok"
         THEN /\ pc' = "find"
              /\ EnterWrapper
              /\ UNCHANGED outcome
         ELSE /\ Finish(OutputError(
                    IF r = "FileNotFoundError" THEN "auth_config_missing"
                                               ELSE "auth_refresh_failed",
                    r, 0, "", ""))
              /\ UNCHANGED execVars
    /\ UNCHANGED << script, afterArg, beforeArg, after, before, records, record,
                    artifact, doc_url, text, entries, pages >>
    /\ UNCHANGED << credVars, listed, served, fetched >>

(***************************************************************************)
(* retry_with_backoff.wrapper                                              *)
(***************************************************************************)
\* what a wrapped function did: it returned, or it raised exc
Returned == [kind |-> "return", exc |-> NoExc]
Raised(e) == [kind |-> "raise", exc |-> e]

\* faulty variant: range(max_retries)
LoopContinuesShort(a) == a + 1 < MAX_RETRIES

\* for attempt in range(max_retries + 1): is there a pass after pass a
LoopContinues(a) == a + 1 <= MAX_RETRIES

\* one pass of wrapper's loop around an invocation that ended as out, up to
\* the sleep (if any): the except clauses
WrapperPass(out) ==
    /\ invocations' = invocations + 1
    /\ observed' = out.exc
    /\ UNCHANGED sleeps
    /\ IF out.kind = "return"
       THEN /\ status' = "returned"
            /\ raised' = NoExc
            /\ last_exception' = NoExc
            /\ UNCHANGED attempt
       ELSE IF ~IsRetried(script, out.exc)
       THEN /\ status' = "raised"
            /\ raised' = out.exc
            /\ last_exception' = NoExc
            /\ UNCHANGED attempt
       ELSE IF SleepsAfter(attempt)
       THEN /\ status' = "sleep"
            /\ last_exception' = LastException(last_exception, out.exc)
            /\ UNCHANGED << raised, attempt >>
       ELSE IF LoopContinues(attempt)
       THEN /\ status' = "call"
            /\ last_exception' = LastException(last_exception, out.exc)
            /\ attempt' = attempt + 1
            /\ UNCHANGED raised
       ELSE \* the loop is over: raise last_exception
            /\ status' = "raised"
            /\ raised' = LastException(last_exception, out.exc)
            /\ last_exception' = NoExc
            /\ UNCHANGED attempt

\* time.sleep(delay), and on to the next pass of the loop
RetrySleep ==
    /\ status = "sleep"
    /\ sleeps' = Append(sleeps, Delay(attempt))
    /\ IF LoopContinues(attempt)
       THEN /\ status' = "call"
            /\ attempt' = attempt + 1
            /\ UNCHANGED << last_exception, raised >>
       ELSE /\ status' = "raised"
            /\ raised' = last_exception
            /\ last_exception' = NoExc
            /\ UNCHANGED attempt
    /\ UNCHANGED << script, pc, afterArg, beforeArg, after, before, invocations,
                    observed, answered, records, record, artifact, doc_url, text,
                    entries, pages, outcome, called >>
    /\ UNCHANGED << credVars, listed, served, fetched >>

(***************************************************************************)
(* find_conference_record                                                  *)
(***************************************************************************)
Abs(x) == IF x < 0 THEN 0 - x ELSE x

\* the lists the session query may return: record i of a list has id i
SessionShapes ==
    [start_time : {NoTime} \cup (0..MaxTime), naive : BOOLEAN]
SessionLists ==
    UNION { [1..n -> SessionShapes] : n \in 0..MaxSessions }
WithIds(l) ==
    [i \in 1..Len(l) |->
        [id |-> i, start_time |-> l[i].start_time, naive |-> l[i].naive]]

\* faulty variant: the upper end of the window is not compared
InWindowNoUpper(r, a, b) ==
    /\ r.start_time # NoTime
    /\ a <= r.start_time

\* faulty variant: the ends of the window are left out
InWindowStrict(r, a, b) ==
    /\ r.start_time # NoTime
    /\ a < r.start_time
    /\ r.start_time < b

\* if record.start_time: ... if after <= record_start <= before
InWindow(r, a, b) ==
    /\ r.start_time # NoTime
    /\ a <= r.start_time
    /\ r.start_time <= b

\* matching_records, in the order of records
MatchingRecords(rs, a, b) == SelectSeq(rs, LAMBDA r : InWindow(r, a, b))

\* key=lambda r: abs((r.start_time - after).total_seconds())
SortKey(r, a) == Abs(r.start_time - a)

\* faulty variant: a sort that is not stable (equal keys change places)
RECURSIVE InsertSortedUnstable(_, _, _)
InsertSortedUnstable(x, sorted, a) ==
    IF sorted = << >> THEN << x >>
    ELSE IF Abs(Head(sorted).start_time - a) < Abs(x.start_time - a)
         THEN << Head(sorted) >> \o InsertSortedUnstable(x, Tail(sorted), a)
         ELSE << x >> \o sorted

\* list.sort is stable: x, which came after all of sorted, goes behind every
\* element whose key is not greater than its own
RECURSIVE InsertSorted(_, _, _)
InsertSorted(x, sorted, a) ==
    IF sorted = << >> THEN << x >>
    ELSE IF SortKey(Head(sorted), a) <= SortKey(x, a)
         THEN << Head(sorted) >> \o InsertSorted(x, Tail(sorted), a)
         ELSE << x >> \o sorted

RECURSIVE StableSort(_, _)
StableSort(rs, a) ==
    IF rs = << >> THEN << >>
    ELSE InsertSorted(rs[Len(rs)], StableSort(SubSeq(rs, 1, Len(rs) - 1), a), a)

\* the body of find_conference_record once the query returned rs:
\* the record returned (NoRecord for None), or the exception raised.
\* start_time - after raises TypeError when start_time is naive.
FindInRecords(rs, a, b, n) ==
    LET m == MatchingRecords(rs, a, b) IN
    IF rs = << >> THEN [kind |-> "return", exc |-> NoExc, val |-> NoRecord]
    ELSE IF m = << >> THEN [kind |-> "return", exc |-> NoExc, val |-> NoRecord]
    ELSE IF \E i \in 1..Len(m) : m[i].naive
         THEN [kind |-> "raise", exc |-> Exc("TypeError", 0, n), val |-> NoRecord]
    ELSE [kind |-> "return", exc |-> NoExc, val |-> StableSort(m, a)[1]]

\* faulty variant: a denial is swallowed like NotFound
FindOnFailureDenialAsNone(f, n) ==
    IF f[1] \in {"NotFound", "PermissionDenied"}
    THEN [kind |-> "return", exc |-> NoExc, val |-> NoRecord]
    ELSE [kind |-> "raise", exc |-> Exc(f[1], f[2], n), val |-> NoRecord]

\* the except clauses of find_conference_record around the query
FindOnFailure(f, n) ==
    IF f[1] = "NotFound"
    THEN [kind |-> "return", exc |-> NoExc, val |-> NoRecord]
    ELSE IF f[1] = "PermissionDenied"
    THEN [kind |-> "raise", exc |-> Exc("PermissionError", 0, n), val |-> NoRecord]
    ELSE [kind |-> "raise", exc |-> Exc(f[1], f[2], n), val |-> NoRecord]

\* one invocation of find_conference_record by its wrapper
FindConferenceRecord ==
    /\ pc = "find"
    /\ status = "call"
    /\ called' = called \cup {"session_query"}
    /\ \/ \E l \in SessionLists :
            LET out == FindInRecords(WithIds(l), after, before, invocations + 1) IN
            /\ records' = WithIds(l)
            /\ record' = out.val
            /\ answered' = Answered
            /\ WrapperPass(out)
       \/ \E f \in RemoteFailures :
            LET out == FindOnFailure(f, invocations + 1) IN
            /\ records' = << >>
            /\ record' = out.val
            /\ answered' = f
            /\ WrapperPass(out)
    /\ UNCHANGED << script, pc, afterArg, beforeArg, after, before, artifact,
                    doc_url, text, entries, pages, outcome >>
    /\ UNCHANGED << credVars, listed, served, fetched >>

\* main: the except clauses around find_conference_record, and "if not record"
AfterFind ==
    /\ pc = "find"
    /\ status \in {"returned", "raised"}
    /\ records' = << >>
    /\ IF status = "raised"
       THEN /\ Finish(OutputError(
                  IF raised.type = "PermissionError" THEN "meet_access_denied"
                                                     ELSE "meet_api_error",
                  raised.type, 0, "", ""))
            /\ LeaveWrapper
       ELSE IF record = NoRecord
       THEN /\ Finish(OutputError("no_conference_record", "", 0, "", ""))
            /\ LeaveWrapper
       ELSE /\ pc' = "metadata"
            /\ IF script = "transcript" THEN EnterWrapper ELSE LeaveWrapper
            /\ UNCHANGED outcome
    /\ UNCHANGED << script, afterArg, beforeArg, after, before, record,
                    artifact, doc_url, text, entries, pages, called >>
    /\ UNCHANGED << credVars, listed, served, fetched >>

(***************************************************************************)
(* Artifact metadata                                                       *)
(***************************************************************************)
\* a transcript (meet_v2.Transcript) or a smart note (a dict): its state and
\* what its docs_destination holds: nothing ("none"), a destination without
\* a document id ("nodoc"), a document id ("doc"), or a document id and an
\* export_uri ("doc_uri")
ArtifactStates == {"STARTED", "ENDED", "FILE_GENERATED", "STATE_UNSPECIFIED"}
Artifacts == [state : ArtifactStates, dest : {"none", "nodoc", "doc", "doc_uri"}]
\* the lists the metadata query may return: any first artifact; the further
\* ones are a finished one with a document or one still in progress
FurtherArtifacts ==
    { [state |-> "FILE_GENERATED", dest |-> "doc"],
      [state |-> "STARTED", dest |-> "none"] }
ArtifactLists ==
    { l \in UNION { [1..n -> Artifacts] : n \in 0..MaxArtifacts } :
        \A i \in 2..Len(l) : l[i] \in FurtherArtifacts }

\* faulty variant: the document id is not looked at
HasDocumentAlways(a) == TRUE

\* transcript.docs_destination and transcript.docs_destination.document
\* (notes: not (not docs_dest or not docs_dest.get("document")))
HasDocument(a) == a.dest \in {"doc", "doc_uri"}

\* export_uri or f"https://docs.google.com/document/d/{doc_id}/edit"
DocUrl(a) == IF a.dest = "doc_uri" THEN "export_uri" ELSE "edit_url"

\* faulty variant: the last transcript of the list is returned
FirstTranscriptLast(ts) ==
    IF ts = << >> THEN [kind |-> "return", exc |-> NoExc, val |-> NoArtifact]
    ELSE [kind |-> "return", exc |-> NoExc, val |-> ts[Len(ts)]]

\* the body of get_transcript_metadata once the query returned ts
FirstTranscript(ts) ==
    IF ts = << >> THEN [kind |-> "return", exc |-> NoExc, val |-> NoArtifact]
    ELSE [kind |-> "return", exc |-> NoExc, val |-> ts[1]]

\* the except clauses of get_transcript_metadata around the query
MetadataOnFailure(f, n) ==
    IF f[1] = "NotFound"
    THEN [kind |-> "return", exc |-> NoExc, val |-> NoArtifact]
    ELSE IF f[1] = "PermissionDenied"
    THEN [kind |-> "raise", exc |-> Exc("PermissionError", 0, n), val |-> NoArtifact]
    ELSE [kind |-> "raise", exc |-> Exc(f[1], f[2], n), val |-> NoArtifact]

\* one invocation of get_transcript_metadata by its wrapper
GetTranscriptMetadata ==
    /\ pc = "metadata"
    /\ script = "transcript"
    /\ status = "call"
    /\ called' = called \cup {"metadata"}
    /\ \/ \E ts \in ArtifactLists :
            /\ artifact' = FirstTranscript(ts).val
            /\ listed' = ts
            /\ answered' = Answered
            /\ WrapperPass(FirstTranscript(ts))
       \/ \E f \in RemoteFailures :
            /\ artifact' = NoArtifact
            /\ listed' = NoList
            /\ answered' = f
            /\ WrapperPass(MetadataOnFailure(f, invocations + 1))
    /\ UNCHANGED << script, pc, afterArg, beforeArg, after, before, records,
                    record, doc_url, text, entries, pages, outcome >>
    /\ UNCHANGED << credVars, served, fetched >>

\* faulty variant: a transcript whose generation has ended counts as ready
TranscriptReadyLoose(a) == a.state \in {"FILE_GENERATED", "ENDED"}

\* the transcript is ready: transcript.state == FILE_GENERATED
TranscriptReady(a) == a.state = "FILE_GENERATED"

\* main (transcript): from the except clauses around get_transcript_metadata to
\* the call of download_transcript_doc or of get_transcript_entries
AfterTranscriptMetadata ==
    /\ pc = "metadata"
    /\ script = "transcript"
    /\ status \in {"returned", "raised"}
    /\ IF status = "raised"
       THEN /\ Finish(OutputError(
                  IF raised.type = "PermissionError" THEN "transcript_access_denied"
                                                     ELSE "transcript_api_error",
                  raised.type, 0, "", ""))
            /\ LeaveWrapper
            /\ UNCHANGED doc_url
       ELSE IF artifact = NoArtifact
       THEN /\ Finish(OutputError("no_transcript", "", record.id, "", ""))
            /\ LeaveWrapper
            /\ UNCHANGED doc_url
       ELSE IF ~TranscriptReady(artifact)
       THEN /\ Finish(OutputError("transcript_not_ready",
                  IF artifact.state = "STARTED" THEN "in_progress" ELSE "try_again",
                  record.id, artifact.state, ""))
            /\ LeaveWrapper
            /\ UNCHANGED doc_url
       ELSE IF HasDocument(artifact)
       THEN /\ pc' = "export"
            /\ doc_url' = DocUrl(artifact)
            /\ EnterWrapper
            /\ UNCHANGED outcome
       ELSE /\ pc' = "entries"
            /\ EnterWrapper
            /\ UNCHANGED << doc_url, outcome >>
    /\ UNCHANGED << script, afterArg, beforeArg, after, before, records, record,
                    artifact, text, entries, pages, called >>
    /\ UNCHANGED << credVars, listed, served, fetched >>

\* what the smartNotes request may answer: requests.get raises, or the
\* response has one of these status codes; a 404 carries "Method not found"
\* in its message or not, or a body that is not JSON, on which
\* response.json() raises; a 200 carries a list of notes
NotesFailures == {"refresh", "timeout", "connection", "404_method", "404",
                  "404_nojson", "403", "429", "500"}

\* get_smart_notes_metadata without a list: what it raises, or the dict it
\* returns (NoExc with ret "api_not_available", "permission_denied" or
\* "empty", the last for {"smartNotes": []})
NotesOnFailure(f, n) ==
    CASE f = "refresh"    -> [exc |-> Exc("RefreshError", 0, n), ret |-> ""]
      [] f = "timeout"    -> [exc |-> Exc("TimeoutError", 0, n), ret |-> ""]
      [] f = "connection" -> [exc |-> Exc("builtin ConnectionError", 0, n), ret |-> ""]
      [] f = "404_method" -> [exc |-> NoExc, ret |-> "api_not_available"]
      [] f = "404"        -> [exc |-> NoExc, ret |-> "empty"]
      [] f = "404_nojson" -> [exc |-> Exc("JSONDecodeError", 0, n), ret |-> ""]
      [] f = "403"        -> [exc |-> NoExc, ret |-> "permission_denied"]
      [] f = "429"        -> [exc |-> Exc("ResourceExhausted", 0, n), ret |-> ""]
      [] f = "500"        -> [exc |-> Exc("requests HTTPError", 500, n), ret |-> ""]

\* main (notes): the checks of the note's state, up to the call of
\* download_notes_document
NotesStateCheck(note) ==
    IF note.state = "STARTED"
    THEN /\ Finish(OutputError("notes_in_progress", "in_progress",
                               record.id, note.state, ""))
         /\ LeaveWrapper
         /\ UNCHANGED doc_url
    ELSE IF note.state = "ENDED"
    THEN /\ Finish(OutputError("notes_not_ready", "try_again",
                               record.id, note.state, ""))
         /\ LeaveWrapper
         /\ UNCHANGED doc_url
    ELSE IF note.state # "FILE_GENERATED"
    THEN /\ Finish(OutputError("notes_not_ready", "not_ready",
                               record.id, note.state, ""))
         /\ LeaveWrapper
         /\ UNCHANGED doc_url
    ELSE IF ~HasDocument(note)
    THEN /\ Finish(OutputError("notes_fetch_error", "no_document_id",
                               record.id, note.state, ""))
         /\ LeaveWrapper
         /\ UNCHANGED doc_url
    ELSE /\ pc' = "export"
         /\ doc_url' = DocUrl(note)
         /\ EnterWrapper
         /\ UNCHANGED outcome

\* main (notes): get_smart_notes_metadata, which no wrapper surrounds, and
\* main up to the call of download_notes_document.  invocations and observed
\* stay behind when main ends here.
GetSmartNotesMetadata ==
    /\ pc = "metadata"
    /\ script = "notes"
    /\ status = "idle"
    /\ called' = called \cup {"metadata"}
    /\ \/ \E ns \in ArtifactLists :
            /\ listed' = ns
            /\ IF ns = << >>
               THEN /\ Finish(OutputError("no_smart_notes", "", record.id, "", ""))
                    /\ LeaveWrapper
                    /\ UNCHANGED << artifact, doc_url >>
               ELSE /\ artifact' = ns[1]
                    /\ NotesStateCheck(ns[1])
       \/ \E f \in NotesFailures :
            LET r == NotesOnFailure(f, 1) IN
            /\ Finish(OutputError(
                  IF r.exc # NoExc THEN "notes_fetch_error"
                  ELSE IF r.ret = "api_not_available" THEN "api_not_available"
                  ELSE IF r.ret = "permission_denied" THEN "meet_access_denied"
                  ELSE "no_smart_notes",
                  r.exc.type, record.id, "", ""))
            /\ status' = "idle"
            /\ attempt' = 0
            /\ last_exception' = NoExc
            /\ raised' = r.exc
            /\ invocations' = 1
            /\ sleeps' = << >>
            /\ observed' = r.exc
            /\ answered' = << f, 0 >>
            /\ listed' = NoList
            /\ UNCHANGED << artifact, doc_url >>
    /\ UNCHANGED << script, afterArg, beforeArg, after, before, records, record,
                    text, entries, pages >>
    /\ UNCHANGED << credVars, served, fetched >>

(***************************************************************************)
(* Document export                                                         *)
(*                                                                         *)
(* A Python string is a sequence of tokens here: << >> is the empty        *)
(* string and \o concatenates.                                             *)
(***************************************************************************)
\* what the Drive export may return (decoded when it comes as bytes)
ExportContents == { << >>, << "doc text" >> }

\* the except clause of download_transcript_doc / download_notes_document
ExportOnFailure(f, n) ==
    IF f[1] = "HttpError" /\ f[2] = 403
    THEN Raised(Exc("PermissionError", 0, n))
    ELSE IF f[1] = "HttpError" /\ f[2] = 404
    THEN Raised(Exc("FileNotFoundError", 0, n))
    ELSE Raised(Exc(f[1], f[2], n))

\* one invocation of download_transcript_doc / download_notes_document by
\* its wrapper
DownloadDoc ==
    /\ pc = "export"
    /\ status = "call"
    /\ called' = called \cup {"export"}
    /\ \/ \E c \in ExportContents :
            /\ text' = c
            /\ answered' = Answered
            /\ WrapperPass(Returned)
       \/ \E f \in RemoteFailures :
            /\ UNCHANGED text
            /\ answered' = f
            /\ WrapperPass(ExportOnFailure(f, invocations + 1))
    /\ listed' = NoList
    /\ UNCHANGED << script, pc, afterArg, beforeArg, after, before, records,
                    record, artifact, doc_url, entries, pages, outcome >>
    /\ UNCHANGED << credVars, served, fetched >>

\* faulty variant: a missing document is handled as a denial
TranscriptExportVerdictNotFoundFatal(st, e, txt) ==
    IF st = "raised" /\ e.type \in {"PermissionError", "FileNotFoundError"}
    THEN "denied"
    ELSE IF st = "raised" \/ txt = << >> THEN "fallback"
    ELSE "found"

\* faulty variant: no "if not transcript_text" test, an empty export is found
TranscriptExportVerdictEmptyFound(st, e, txt) ==
    IF st = "raised" /\ e.type = "PermissionError" THEN "denied"
    ELSE IF st = "raised" THEN "fallback"
    ELSE "found"

\* faulty variant: only a missing document leads to the fallback
TranscriptExportVerdictOtherFatal(st, e, txt) ==
    IF st = "raised" /\ e.type # "FileNotFoundError" THEN "denied"
    ELSE IF st = "raised" \/ txt = << >> THEN "fallback"
    ELSE "found"

\* faulty variant: no except clause for PermissionError
TranscriptExportVerdictNoDenial(st, e, txt) ==
    IF st = "raised" \/ txt = << >> THEN "fallback" ELSE "found"

\* main (transcript): what the try around download_transcript_doc and
\* "if not transcript_text" lead to: except PermissionError ("denied"),
\* except FileNotFoundError: pass and except Exception: a warning (both
\* "fallback", as is an empty text), or the success response ("found")
TranscriptExportVerdict(st, e, txt) ==
    IF st = "raised" /\ e.type = "PermissionError" THEN "denied"
    ELSE IF st = "raised" /\ e.type = "FileNotFoundError" THEN "fallback"
    ELSE IF st = "raised" THEN "fallback"
    ELSE IF txt = << >> THEN "fallback"
    ELSE "found"

\* main (transcript): the except clauses around download_transcript_doc, then
\* "if not transcript_text" and either the call of get_transcript_entries or
\* the success response
AfterTranscriptExport ==
    /\ pc = "export"
    /\ script = "transcript"
    /\ status \in {"returned", "raised"}
    /\ LET v == TranscriptExportVerdict(status, raised, text) IN
       IF v = "denied"
       THEN /\ Finish(OutputError("drive_access_denied", raised.type,
                                  record.id, "", doc_url))
            /\ LeaveWrapper
       ELSE IF v = "fallback"
       THEN /\ pc' = "entries"
            /\ EnterWrapper
            /\ UNCHANGED outcome
       ELSE /\ Finish(OutputSuccess(record.id, artifact.state, doc_url, text))
            /\ LeaveWrapper
    /\ UNCHANGED << script, afterArg, beforeArg, after, before, records, record,
                    artifact, doc_url, text, entries, pages, called >>
    /\ UNCHANGED << credVars, listed, served, fetched >>

\* main (notes): the error code of the except clauses around
\* download_notes_document
NotesExportError(e) ==
    IF e.type = "PermissionError" THEN "drive_access_denied"
    ELSE IF e.type = "FileNotFoundError" THEN "notes_fetch_error"
    ELSE "notes_fetch_error"

\* main (notes): the except clauses around download_notes_document, then the
\* success response
AfterNotesExport ==
    /\ pc = "export"
    /\ script = "notes"
    /\ status \in {"returned", "raised"}
    /\ IF status = "raised"
       THEN Finish(OutputError(NotesExportError(raised), raised.type,
                               record.id, "", doc_url))
       ELSE Finish(OutputSuccess(record.id, artifact.state, doc_url, text))
    /\ LeaveWrapper
    /\ UNCHANGED << script, afterArg, beforeArg, after, before, records, record,
                    artifact, doc_url, text, entries, pages, called >>
    /\ UNCHANGED << credVars, listed, served, fetched >>

(***************************************************************************)
(* Raw entries                                                             *)
(***************************************************************************)
\* a transcript entry: participant is "" when the entry has no label
EntryValues == [participant : {"", "A"}, text : { << "hi" >> }]
PageContents == UNION { [1..n -> EntryValues] : n \in 0..MaxPageLen }

\* " ".join(ts)
RECURSIVE JoinWith(_, _)
JoinWith(sep, ts) ==
    IF ts = << >> THEN << >>
    ELSE IF Len(ts) = 1 THEN ts[1]
    ELSE ts[1] \o sep \o JoinWith(sep, Tail(ts))

\* faulty variant: "".join(current_text)
ParagraphNoSpace(speaker, texts) ==
    << speaker, ": " >> \o JoinWith(<< >>, texts)

\* f"{current_speaker}: {' '.join(current_text)}"
Paragraph(speaker, texts) == << speaker, ": " >> \o JoinWith(<< " " >>, texts)

\* the loop of format_entries_as_text over es[i..], with lines,
\* current_speaker ("" is None) and current_text as they stand; then the
\* flush of the final speaker
RECURSIVE FormatLoop(_, _, _, _, _)
FormatLoop(es, i, lines, current_speaker, current_text) ==
    IF i > Len(es)
    THEN IF current_text # << >>
         THEN Append(lines, Paragraph(current_speaker, current_text))
         ELSE lines
    ELSE LET speaker == IF es[i].participant # "" THEN es[i].participant
                                                  ELSE "Unknown"
             t == es[i].text
         IN IF speaker # current_speaker
            THEN FormatLoop(es, i + 1,
                     IF current_text # << >>
                     THEN Append(lines, Paragraph(current_speaker, current_text))
                     ELSE lines,
                     speaker, << t >>)
            ELSE FormatLoop(es, i + 1, lines, current_speaker,
                            Append(current_text, t))

format_entries_as_text(es) ==
    IF es = << >> THEN << >>
    ELSE JoinWith(<< "\n\n" >>, FormatLoop(es, 1, << >>, "", << >>))

\* one request of get_transcript_entries for a page, and what follows it up
\* to the next request: the page is added and the loop goes on, or the
\* function returns entries, or the request raises (entries is lost)
\* faulty variant: the loop is not left when the page has no token
LoopEndsNever(page_token) == FALSE

\* get_transcript_entries: "if not page_token: break"; page_token is TRUE
\* when the response carries a next_page_token
LoopEnds(page_token) == ~page_token

\* faulty variant: a new invocation goes on with the list of the failed one
EntriesKept(es) == es

\* get_transcript_entries: "entries = []" and "page_token = None" open every
\* invocation, so what a failed invocation collected is dropped
EntriesAtStart(es) == << >>

GetTranscriptEntries ==
    /\ pc = "entries"
    /\ status = "call"
    /\ called' = called \cup {"entries"}
    /\ listed' = NoList
    /\ \/ \E page \in PageContents :
            /\ pages + 1 < MaxPages
            /\ ~LoopEnds(TRUE)
            /\ entries' = entries \o page
            /\ pages' = pages + 1
            /\ served' = Append(served, page)
            /\ fetched' = IF pages + 1 > fetched THEN pages + 1 ELSE fetched
            /\ UNCHANGED execVars
       \/ \E page \in PageContents :
            /\ LoopEnds(FALSE)
            /\ entries' = entries \o page
            /\ pages' = pages + 1
            /\ served' = Append(served, page)
            /\ fetched' = IF pages + 1 > fetched THEN pages + 1 ELSE fetched
            /\ answered' = Answered
            /\ WrapperPass(Returned)
       \/ \E f \in RemoteFailures :
            /\ entries' = EntriesAtStart(entries)
            /\ pages' = 0
            /\ served' = << >>
            /\ UNCHANGED fetched
            /\ answered' = f
            /\ WrapperPass(Raised(Exc(f[1], f[2], invocations + 1)))
    /\ UNCHANGED << script, pc, afterArg, beforeArg, after, before, records,
                    record, artifact, doc_url, text, outcome >>
    /\ UNCHANGED credVars

\* faulty variant: no "if entries" check before the success response
EntriesVerdictNoEmptyCheck(st, es) ==
    IF st = "raised" THEN "fetch_error" ELSE "found"

\* main (transcript): the try around the fallback: except Exception
\* ("fetch_error"), "if entries" false ("empty"), else the success response
EntriesVerdict(st, es) ==
    IF st = "raised" THEN "fetch_error"
    ELSE IF es = << >> THEN "empty"
    ELSE "found"

\* main (transcript): "if entries", the except clause around the fallback,
\* and the success response
AfterEntries ==
    /\ pc = "entries"
    /\ status \in {"returned", "raised"}
    /\ LET v == EntriesVerdict(status, entries) IN
       IF v = "fetch_error"
       THEN /\ Finish(OutputError("transcript_fetch_error", raised.type,
                                  record.id, "", ""))
            /\ UNCHANGED text
       ELSE IF v = "empty"
       THEN /\ Finish(OutputError("transcript_empty", "", record.id, "", ""))
            /\ UNCHANGED text
       ELSE /\ text' = format_entries_as_text(entries)
            /\ Finish(OutputSuccess(record.id, artifact.state, doc_url,
                                    format_entries_as_text(entries)))
    /\ LeaveWrapper
    /\ entries' = << >>
    /\ pages' = 0
    /\ served' = << >>
    /\ fetched' = 0
    /\ UNCHANGED << script, afterArg, beforeArg, after, before, records, record,
                    artifact, doc_url, called >>
    /\ UNCHANGED << credVars, listed >>

Next ==
    \/ ParseArgs
    \/ Authenticate
    \/ RetrySleep
    \/ FindConferenceRecord
    \/ AfterFind
    \/ GetTranscriptMetadata
    \/ AfterTranscriptMetadata
    \/ GetSmartNotesMetadata
    \/ DownloadDoc
    \/ AfterTranscriptExport
    \/ AfterNotesExport
    \/ GetTranscriptEntries
    \/ AfterEntries

Spec == Init /\ [][Next]_vars

(***************************************************************************)
(* Termination.  The while loop of get_transcript_entries has no bound of  *)
(* its own: the listing may answer with a next_page_token any number of    *)
(* times.  Pages past MaxPages are not kept and not counted: pages then    *)
(* moves between MaxPages and MaxPages + 1, so that each of them still is  *)
(* a step.  The answers are drawn from fewer values than in Spec: one      *)
(* window, at most one session, one artifact and one entry per page; every *)
(* branch of main and of the wrapper is still taken.                       *)
(***************************************************************************)
\* main starts with --after 1 or a malformed one, and without --before or
\* with a malformed one
InitLive ==
    /\ Init
    /\ afterArg \in {BadTime, 1}
    /\ beforeArg \in {NoTime, BadTime}

\* find_conference_record on a list of at most one session, which starts at
\* after or has no start_time
LiveFindConferenceRecord ==
    /\ FindConferenceRecord
    /\ Len(records') <= 1
    /\ \A i \in 1..Len(records') : records'[i].start_time \in {NoTime, after}

\* get_transcript_metadata on a list of at most one transcript
LiveGetTranscriptMetadata == GetTranscriptMetadata /\ Len(listed') <= 1

\* get_smart_notes_metadata on a list of at most one note
LiveGetSmartNotesMetadata == GetSmartNotesMetadata /\ Len(listed') <= 1

\* get_transcript_entries on pages of at most one entry
LiveGetTranscriptEntries ==
    /\ GetTranscriptEntries
    /\ \A i \in 1..Len(served') : Len(served'[i]) <= 1

\* get_transcript_entries: one more pass of the while loop, on a page that
\* carries a next_page_token, past the pages the model keeps
MorePages ==
    /\ pc = "entries"
    /\ status = "call"
    /\ pages + 1 >= MaxPages
    /\ ~LoopEnds(TRUE)
    /\ pages' = IF pages = MaxPages THEN MaxPages + 1 ELSE MaxPages
    /\ called' = called \cup {"entries"}
    /\ listed' = NoList
    /\ UNCHANGED << script, afterArg, beforeArg, after, before, records, record,
                    artifact, doc_url, text, entries, served, fetched, outcome >>
    /\ UNCHANGED << pc, execVars, credVars >>

\* the listing answers with a page without next_page_token
LastPage == LiveGetTranscriptEntries /\ status' = "returned"

NextLive ==
    \/ ParseArgs
    \/ Authenticate
    \/ RetrySleep
    \/ LiveFindConferenceRecord
    \/ AfterFind
    \/ LiveGetTranscriptMetadata
    \/ AfterTranscriptMetadata
    \/ LiveGetSmartNotesMetadata
    \/ DownloadDoc
    \/ AfterTranscriptExport
    \/ AfterNotesExport
    \/ LiveGetTranscriptEntries
    \/ MorePages
    \/ AfterEntries

\* every call returns or fails, every sleep ends and main goes on (weak
\* fairness of the steps), and a pending listing request is in the end
\* answered with a page without next_page_token
SpecLive ==
    /\ InitLive
    /\ [][NextLive]_vars
    /\ WF_vars(NextLive)
    /\ WF_vars(LastPage)

(***************************************************************************)
(* format_entries_as_text on its own: any list of entries is formatted.    *)
(***************************************************************************)
\* longest list of entries formatted
MaxEntries == 3

\* the entries get_transcript_entries may hand over: a participant label
\* or none (""), and a text that may be empty (entry.text or "")
FormatEntryValues ==
    [participant : {"", "A", "B"},
     text : { << >>, << "hi" >>, << "there" >>, << "yo" >> }]
FormatInputs == UNION { [1..n -> FormatEntryValues] : n \in 0..MaxEntries }

InitFormat ==
    /\ script = "transcript"
    /\ pc = "format"
    /\ afterArg = 1
    /\ beforeArg = NoTime
    /\ after = NoTime
    /\ before = NoTime
    /\ status = "idle"
    /\ attempt = 0
    /\ last_exception = NoExc
    /\ raised = NoExc
    /\ invocations = 0
    /\ sleeps = << >>
    /\ observed = NoExc
    /\ answered = NoAnswer
    /\ records = << >>
    /\ record = NoRecord
    /\ artifact = NoArtifact
    /\ doc_url = ""
    /\ text = << >>
    /\ entries \in FormatInputs
    /\ pages = 0
    /\ listed = NoList
    /\ served = << >>
    /\ fetched = 0
    /\ outcome = NoOutcome
    /\ called = {}
    /\ CredsIdle

\* transcript_text = format_entries_as_text(entries)
FormatEntries ==
    /\ pc = "format"
    /\ pc' = "formatted"
    /\ text' = format_entries_as_text(entries)
    /\ UNCHANGED << script, afterArg, beforeArg, after, before, execVars,
                    records, record, artifact, doc_url, entries, pages,
                    outcome, called >>
    /\ UNCHANGED << credVars, listed, served, fetched >>

NextFormat == FormatEntries

SpecFormat == InitFormat /\ [][NextFormat]_vars

(***************************************************************************)
(* strip_speaker_labels on its own.                                        *)
(*                                                                         *)
(* The transcript is a sequence of tokens, each a maximal run of           *)
(* characters of one kind: the word "Speaker", another word that starts    *)
(* with a capital ("John"), a single capital letter ("Q"), a word that     *)
(* does not start with a capital ("hello"), digits ("1"), blanks (" "),    *)
(* or one of the characters ":", "." and "\n".  Two runs of letters, of    *)
(* digits or of blanks never stand side by side (they would be one run).   *)
(***************************************************************************)
\* longest transcript stripped, in tokens
MaxTextLen == 6

LetterRuns == {"Speaker", "John", "Q", "hello"}
StripTokens == LetterRuns \cup {"1", " ", ":", ".", "\n"}

\* may token x follow token t in a transcript
MayFollow(t, x) ==
    /\ ~(t \in LetterRuns /\ x \in LetterRuns)
    /\ ~(t = "1" /\ x = "1")
    /\ ~(t = " " /\ x = " ")

\* the transcripts of at most n tokens
RECURSIVE Transcripts(_)
Transcripts(n) ==
    IF n = 0 THEN { << >> }
    ELSE LET shorter == Transcripts(n - 1) IN
         shorter \cup
         { Append(p[1], p[2]) :
             p \in { q \in shorter \X StripTokens :
                       /\ Len(q[1]) = n - 1
                       /\ n > 1 => MayFollow(q[1][n - 1], q[2]) } }

\* transcript.split("\n"): cur is the line being read
RECURSIVE SplitLines(_, _)
SplitLines(ts, cur) ==
    IF ts = << >> THEN << cur >>
    ELSE IF Head(ts) = "\n" THEN << cur >> \o SplitLines(Tail(ts), << >>)
    ELSE SplitLines(Tail(ts), Append(cur, Head(ts)))

\* the positions a match may go on from after one token of class c, having
\* come to one of the positions P of line l
Consume(l, P, c) == { q + 1 : q \in { r \in P : r <= Len(l) /\ l[r] \in c } }

\* [A-Z][a-zA-Z]*
CapitalWord == {"Speaker", "John", "Q"}

\* speaker_pattern matched at the start of line l: the position behind the
\* match, 1 if there is none.
\*   ^(?:Speaker\s+\d+|[A-Z][a-zA-Z]*(?:\s+[A-Z]\.?)?(?:\s+[A-Z][a-zA-Z]*)?):\s*
MatchEnd(l) ==
    LET numbered == Consume(l, Consume(l, Consume(l, {1}, {"Speaker"}), {" "}), {"1"})
        first    == Consume(l, {1}, CapitalWord)
        initial  == Consume(l, Consume(l, first, {" "}), {"Q"})
        middle   == first \cup initial \cup Consume(l, initial, {"."})
        last     == middle \cup Consume(l, Consume(l, middle, {" "}), CapitalWord)
        colon    == Consume(l, numbered \cup last, {":"})
        blanks   == colon \cup Consume(l, colon, {" "})
    IN  IF colon = {} THEN 1
        ELSE CHOOSE e \in blanks : \A f \in blanks : f <= e

\* speaker_pattern.sub("", line)
StripLine(l) == SubSeq(l, MatchEnd(l), Len(l))

RECURSIVE StripLines(_)
StripLines(ls) ==
    IF ls = << >> THEN << >>
    ELSE << StripLine(Head(ls)) >> \o StripLines(Tail(ls))

\* "\n".join(lines) of the stripped lines of transcript.split("\n")
strip_speaker_labels(transcript) ==
    JoinWith(<< "\n" >>, StripLines(SplitLines(transcript, << >>)))

InitStrip ==
    /\ script = "transcript"
    /\ pc = "output"
    /\ afterArg = 1
    /\ beforeArg = NoTime
    /\ after = NoTime
    /\ before = NoTime
    /\ status = "idle"
    /\ attempt = 0
    /\ last_exception = NoExc
    /\ raised = NoExc
    /\ invocations = 0
    /\ sleeps = << >>
    /\ observed = NoExc
    /\ answered = NoAnswer
    /\ records = << >>
    /\ record = NoRecord
    /\ artifact = NoArtifact
    /\ doc_url = ""
    /\ text \in Transcripts(MaxTextLen)
    /\ entries = << >>
    /\ pages = 0
    /\ listed = NoList
    /\ served = << >>
    /\ fetched = 0
    /\ outcome = NoOutcome
    /\ called = {}
    /\ CredsIdle

\* output_success in text format without include_speakers: what is printed
\* is strip_speaker_labels(transcript)
OutputText ==
    /\ pc = "output"
    /\ Finish(OutputSuccess(0, "", "", strip_speaker_labels(text)))
    /\ UNCHANGED << script, afterArg, beforeArg, after, before, execVars,
                    records, record, artifact, doc_url, text, entries, pages,
                    called >>
    /\ UNCHANGED << credVars, listed, served, fetched >>

NextStrip == OutputText

SpecStrip == InitStrip /\ [][NextStrip]_vars

(***************************************************************************)
(* meet_auth.get_credentials, invoked by several processes that share one  *)
(* token file.                                                             *)
(***************************************************************************)
\* what the token file may hold before the first invocation
InitialFiles == { NoFile, InvalidFile, TokenFile(0, TRUE), TokenFile(0, FALSE) }

InitCreds ==
    /\ script = "transcript"
    /\ pc = "auth"
    /\ afterArg = 1
    /\ beforeArg = NoTime
    /\ after = 1
    /\ before = DefaultBefore(1)
    /\ status = "idle"
    /\ attempt = 0
    /\ last_exception = NoExc
    /\ raised = NoExc
    /\ invocations = 0
    /\ sleeps = << >>
    /\ observed = NoExc
    /\ answered = NoAnswer
    /\ records = << >>
    /\ record = NoRecord
    /\ artifact = NoArtifact
    /\ doc_url = ""
    /\ text = << >>
    /\ entries = << >>
    /\ pages = 0
    /\ listed = NoList
    /\ served = << >>
    /\ fetched = 0
    /\ outcome = NoOutcome
    /\ called = {}
    /\ config \in BOOLEAN
    /\ store \in InitialFiles
    /\ cred = [p \in Procs |-> IdleCred]
    /\ issued = 0
    /\ overlapped = FALSE

mainVars == << script, pc, afterArg, beforeArg, after, before, execVars,
              records, record, artifact, listed, doc_url, text, entries, pages,
              served, fetched, outcome, called >>

\* invocation q has begun and has not returned
Underway(q) == cred[q].pc \notin {"idle", "done"}

\* p takes a step: did it run while another invocation was underway
Overlap(p) ==
    overlapped' = (overlapped \/ \E q \in Procs \ {p} : Underway(q))

\* creds.valid: there is a token and it has not expired
Valid(c) == c.kind = "creds" /\ ~c.expired

\* where get_credentials goes with creds as loaded: the refresh, the OAuth
\* flow, or return creds
AfterLoad(c) ==
    IF c.kind = "creds" /\ c.expired /\ c.refresh_token THEN "refresh"
    ELSE IF ~Valid(c) THEN "flow"
    ELSE "done"

\* if not client_secrets_path.exists(): raise FileNotFoundError
CheckConfig(p) ==
    /\ cred[p].pc = "idle"
    /\ cred' = IF config
               THEN [cred EXCEPT ![p].pc = "load"]
               ELSE [cred EXCEPT ![p].pc = "done",
                                 ![p].result = "FileNotFoundError"]
    /\ Overlap(p)
    /\ UNCHANGED << mainVars, config, store, issued >>

\* if token_path.exists(): creds = Credentials.from_authorized_user_file(...)
\* (creds = None when the file does not parse); whether the token read has
\* expired is for the clock to say
LoadToken(p) ==
    /\ cred[p].pc = "load"
    /\ \E x \in BOOLEAN :
         LET c == IF store.kind = "token"
                  THEN Credentials(store.token, store.refresh_token, x)
                  ELSE NoCreds
         IN  cred' = [cred EXCEPT ![p].creds = c,
                                  ![p].pc = AfterLoad(c),
                                  ![p].result = IF AfterLoad(c) = "done"
                                                THEN "ok" ELSE "none"]
    /\ Overlap(p)
    /\ UNCHANGED << mainVars, config, store, issued >>

\* creds.refresh(Request()): a new token is issued, or the refresh is
\* rejected and except Exception sets creds = None
RefreshToken(p) ==
    /\ cred[p].pc = "refresh"
    /\ \/ /\ issued' = issued + 1
          /\ cred' = [cred EXCEPT ![p].creds = Credentials(issued + 1, TRUE, FALSE),
                                  ![p].refreshed = TRUE,
                                  ![p].pc = "open"]
       \/ /\ cred' = [cred EXCEPT ![p].creds = NoCreds,
                                  ![p].rejected = TRUE,
                                  ![p].pc = "flow"]
          /\ UNCHANGED issued
    /\ Overlap(p)
    /\ UNCHANGED << mainVars, config, store >>

\* if not creds or not creds.valid: creds = _run_oauth_flow(...)
RunOAuthFlow(p) ==
    /\ cred[p].pc = "flow"
    /\ issued' = issued + 1
    /\ cred' = [cred EXCEPT ![p].creds = Credentials(issued + 1, TRUE, FALSE),
                            ![p].pc = "open"]
    /\ Overlap(p)
    /\ UNCHANGED << mainVars, config, store >>

\* _save_credentials: open(token_path, "w") empties the file
OpenTokenFile(p) ==
    /\ cred[p].pc = "open"
    /\ store' = EmptyFile
    /\ cred' = [cred EXCEPT ![p].pc = "write"]
    /\ Overlap(p)
    /\ UNCHANGED << mainVars, config, issued >>

\* faulty variant: the token the file held at the start is written back
TokenDataStale(c) == TokenFile(0, c.refresh_token)

\* token_data
TokenData(c) == TokenFile(c.token, c.refresh_token)

\* what the file holds once json.dump(token_data, f) is through: the data,
\* or, when another process wrote after this one opened the file, possibly
\* the data over the rest of a longer text
Written(st, c) ==
    IF st = EmptyFile THEN { TokenData(c) }
    ELSE { TokenData(c), InvalidFile }

\* _save_credentials: json.dump(token_data, f), and get_credentials returns
WriteTokenFile(p) ==
    /\ cred[p].pc = "write"
    /\ store' \in Written(store, cred[p].creds)
    /\ cred' = [cred EXCEPT ![p].pc = "done", ![p].result = "ok"]
    /\ Overlap(p)
    /\ UNCHANGED << mainVars, config, issued >>

NextCreds ==
    \E p \in Procs :
        \/ CheckConfig(p)
        \/ LoadToken(p)
        \/ RefreshToken(p)
        \/ RunOAuthFlow(p)
        \/ OpenTokenFile(p)
        \/ WriteTokenFile(p)

SpecCreds == InitCreds /\ [][NextCreds]_vars

(***************************************************************************)
(* Properties                                                              *)
(***************************************************************************)
\* the failure classes section 4.1 of the specification calls retryable:
\* network timeout, connection failure, service-unavailable,
\* deadline-exceeded, HTTP 429 and resource-exhausted
SpecRetryable(e) ==
    \/ e.type \in {"Timeout", "ConnectionError", "ServiceUnavailable",
                   "DeadlineExceeded", "ResourceExhausted"}
    \/ e.type = "HttpError" /\ e.status = 429

\* a wrapper surrounds the call main is at
InWrapper == status \in {"call", "sleep", "returned", "raised"}

\* C1: a call that ends by raising a retryable failure (every attempt failed
\* with a retryable failure) invoked the function 1 + max_retries times; a
\* call whose first attempt succeeds invoked it once.
C1_InvocationCount ==
    /\ (status = "raised" /\ IsRetried(script, raised))
          => invocations = 1 + MAX_RETRIES
    /\ (status = "returned" /\ attempt = 0) => invocations = 1

C1_Witness ==
    /\ pc = "find"
    /\ status = "raised"
    /\ raised.type = "ServiceUnavailable"
    /\ invocations = 1 + MAX_RETRIES

\* C2: a failure outside the retryable classes leaves the wrapper with the
\* invocation that raised it: the wrapper is never found sleeping or calling
\* again after it, and the sleeps slept are those of the earlier failures.
C2_FatalPropagates ==
    (InWrapper /\ observed # NoExc /\ ~SpecRetryable(observed))
       => /\ status = "raised"
          /\ raised = observed
          /\ raised.at = invocations
          /\ Len(sleeps) = invocations - 1

C2_Witness ==
    /\ status = "raised"
    /\ raised.type = "PermissionError"
    /\ invocations = 2
    /\ sleeps = << 1 >>

\* C3: when the retries are exhausted, the exception raised is the one the
\* final invocation raised: same class, same status, same object.
C3_LastFailureRaised ==
    (status = "raised" /\ IsRetried(script, observed))
       => /\ raised = observed
          /\ raised.at = 1 + MAX_RETRIES

C3_Witness ==
    /\ pc = "export"
    /\ status = "raised"
    /\ raised = Exc("HttpError", 429, 1 + MAX_RETRIES)

\* C4: the i-th sleep of a call lasts base_delay * 2^(i-1); there is one sleep
\* after each failed attempt but the last, so a call that exhausts its
\* retries slept 1, 2, 4 and nothing after the final failure.
C4_Delays ==
    /\ \A i \in 1..Len(sleeps) :
          sleeps[i] = RETRY_BASE_DELAY_SECONDS * 2^(i - 1)
    /\ Len(sleeps) <= MAX_RETRIES
    /\ status = "call" => Len(sleeps) = attempt
    /\ (status = "raised" /\ IsRetried(script, raised)) => sleeps = << 1, 2, 4 >>

C4_Witness ==
    /\ pc = "metadata"
    /\ status = "raised"
    /\ sleeps = << 1, 2, 4 >>

\* C5: in both scripts, a failure of an attempt that is not the last is
\* followed by a sleep (it is retried) exactly when it is of one of the six
\* retryable classes.
C5_Classification ==
    (status \in {"sleep", "raised"} /\ observed # NoExc /\ attempt < MAX_RETRIES)
       => (status = "sleep" <=> SpecRetryable(observed))

\* C6: whenever a retryable failure of a remote call has become final (it
\* was raised to main, or main ended on it), the call had been made
\* 1 + max_retries times.
C6_EveryCallRetried ==
    (observed # NoExc /\ IsRetried(script, observed)
        /\ (status = "raised" \/ pc = "done"))
       => invocations = 1 + MAX_RETRIES

\* C7: the record find_conference_record returns is one of the list, and its
\* start_time is inside [after, before].
C7_ReturnedInWindow ==
    record # NoRecord
       => /\ after <= record.start_time
          /\ record.start_time <= before
          /\ (pc = "find" =>
                \E i \in 1..Len(records) : records[i] = record)

C7_Witness ==
    /\ pc = "find"
    /\ status = "returned"
    /\ record # NoRecord
    /\ records[1].start_time > before
    /\ record = records[2]

\* C8: no record of the list that is inside the window is closer to after
\* than the one returned, and none that is as close comes before it in the
\* list.
C8_ClosestFirst ==
    (pc = "find" /\ status = "returned" /\ record # NoRecord)
       => \A i \in 1..Len(records) :
             (/\ records[i].start_time # NoTime
              /\ after <= records[i].start_time
              /\ records[i].start_time <= before)
             => LET d  == record.start_time - after
                    di == records[i].start_time - after
                IN  \/ (IF d < 0 THEN 0 - d ELSE d) < (IF di < 0 THEN 0 - di ELSE di)
                    \/ /\ (IF d < 0 THEN 0 - d ELSE d) = (IF di < 0 THEN 0 - di ELSE di)
                       /\ record.id <= i

C8_Witness ==
    /\ pc = "find"
    /\ status = "returned"
    /\ Len(records) = 2
    /\ records[1].start_time = records[2].start_time
    /\ record = records[1]

\* C9: no remote call is made with an empty window.
C9_EmptyWindowRejected ==
    called # {} => after <= before

\* C10: an artifact in state FILE_GENERATED without a document id ends the
\* invocation with an error: no content is fetched and nothing is found.
C10_MalformedReady ==
    (artifact # NoArtifact /\ artifact.state = "FILE_GENERATED"
        /\ ~HasDocument(artifact))
       => /\ "export" \notin called
          /\ "entries" \notin called
          /\ ~outcome.found

\* C11: when the export of the document is answered with not-found, the
\* answer leaves the call as a failure (it is not retried); the transcript
\* flow goes on to the raw-entry fallback, whose request is the next remote
\* call; the notes flow ends with an error and makes no further remote call.
C11_NotFoundExport ==
    [][/\ (pc = "export" /\ answered = << "HttpError", 404 >>)
          => /\ status = "raised"
             /\ raised.at = invocations
             /\ IF script = "transcript"
                THEN /\ pc' = "entries"
                     /\ status' = "call"
                     /\ outcome' = NoOutcome
                     /\ called' = called
                ELSE /\ pc' = "done"
                     /\ ~outcome'.found
                     /\ outcome'.error # ""
                     /\ outcome'.exit = 1
                     /\ called' = called
       /\ (pc = "entries" /\ status = "call") => "entries" \in called'
       /\ pc # "done"]_vars

C11_Witness ==
    /\ script = "transcript"
    /\ pc = "export"
    /\ answered = << "HttpError", 404 >>
    /\ raised.type = "FileNotFoundError"

\* C12: when the export of the document is answered with a denial (403),
\* the denial leaves the call on the attempt that met it (no sleep, no
\* further attempt; one attempt in all when it was the first answer), and
\* the invocation ends with drive_access_denied in both flows, the
\* raw-entry fallback never having been called.
C12_ExportDenied ==
    [][(pc = "export" /\ answered = << "HttpError", 403 >>)
          => /\ status = "raised"
             /\ raised.type = "PermissionError"
             /\ raised.at = invocations
             /\ (attempt = 0 => invocations = 1)
             /\ pc' = "done"
             /\ ~outcome'.found
             /\ outcome'.error = "drive_access_denied"
             /\ outcome'.exit = 1
             /\ "entries" \notin called']_vars

C12_Witness ==
    /\ script = "transcript"
    /\ pc = "export"
    /\ answered = << "HttpError", 403 >>
    /\ status = "raised"
    /\ invocations = 1

\* C13: a found outcome never carries empty content, in either flow.
C13_FoundHasContent ==
    outcome.found => outcome.content # << >>

\* C16: a denial of the session query leaves the call on the attempt that
\* met it (one query in all when it was the first answer) and ends the
\* invocation with meet_access_denied, never with no_conference_record; a
\* not-found answer or an empty list makes the resolver return None, and
\* the invocation ends with no_conference_record.
C16_SessionResolver ==
    [][/\ (pc = "find" /\ answered = << "PermissionDenied", 0 >>)
          => /\ status = "raised"
             /\ raised.type = "PermissionError"
             /\ raised.at = invocations
             /\ (attempt = 0 => invocations = 1)
             /\ pc' = "done"
             /\ outcome'.error = "meet_access_denied"
             /\ outcome'.exit = 1
       /\ (pc = "find"
             /\ \/ answered = << "NotFound", 0 >>
                \/ (answered = Answered /\ records = << >>))
          => /\ status = "returned"
             /\ record = NoRecord
             /\ pc' = "done"
             /\ outcome'.error = "no_conference_record"
             /\ outcome'.exit = 1]_vars

C16_Witness ==
    /\ pc = "find"
    /\ answered = << "PermissionDenied", 0 >>
    /\ status = "raised"
    /\ invocations = 1

\* C17: an invocation that is over ended in exactly one outcome: found with
\* exit status 0 and no error code (and then a session was resolved, the
\* artifact was seen in state FILE_GENERATED and the content is the text
\* the export or the fallback gave), or one error code with exit status 1
\* and no content; before that there is no outcome; and a stage whose call
\* raised never ends the invocation as found.
C17_OneOutcome ==
    [][/\ pc # "done" => outcome = NoOutcome
       /\ pc' = "done"
          => \/ /\ outcome'.found
                /\ outcome'.exit = 0
                /\ outcome'.error = ""
                /\ record' # NoRecord
                /\ outcome'.conference_id = record'.id
                /\ artifact'.state = "FILE_GENERATED"
                /\ outcome'.state = "FILE_GENERATED"
                /\ outcome'.content = text'
                /\ ("export" \in called' \/ "entries" \in called')
                /\ status # "raised"
             \/ /\ ~outcome'.found
                /\ outcome'.exit = 1
                /\ outcome'.error # ""
                /\ outcome'.content = << >>]_vars

C17_Witness ==
    /\ pc = "done"
    /\ script = "notes"
    /\ outcome.found
    /\ outcome.exit = 0

\* C18: an error outcome produced after the session was resolved carries the
\* session id, and one produced after the artifact's state was observed
\* carries that state.
C18_PartialContext ==
    (pc = "done" /\ ~outcome.found)
       => /\ record # NoRecord => outcome.conference_id = record.id
          /\ artifact # NoArtifact => outcome.state = artifact.state

\* the speaker of an entry as section 4.4 of the specification has it
C14_Speaker(e) == IF e.participant = "" THEN "Unknown" ELSE e.participant

\* the last entry of the maximal run of one speaker that starts at entry i
C14_RunEnd(es, i) ==
    CHOOSE j \in i..Len(es) :
        /\ \A k \in i..j : C14_Speaker(es[k]) = C14_Speaker(es[i])
        /\ j = Len(es) \/ C14_Speaker(es[j + 1]) # C14_Speaker(es[i])

\* the texts of entries i..j with one space between two of them
RECURSIVE C14_Texts(_, _, _)
C14_Texts(es, i, j) ==
    IF i = j THEN es[i].text
    ELSE es[i].text \o << " " >> \o C14_Texts(es, i + 1, j)

\* the paragraphs of the runs from entry i on, a blank line between two
RECURSIVE C14_Expected(_, _)
C14_Expected(es, i) ==
    IF i > Len(es) THEN << >>
    ELSE LET j == C14_RunEnd(es, i) IN
         << C14_Speaker(es[i]), ": " >> \o C14_Texts(es, i, j)
            \o (IF j < Len(es) THEN << "\n\n" >> ELSE << >>)
            \o C14_Expected(es, j + 1)

\* C14: format_entries_as_text gives one paragraph per maximal run of
\* consecutive entries of one speaker, "<speaker>: " and the run's texts
\* joined by single spaces, the paragraphs separated by one blank line; an
\* entry without a label counts as speaker "Unknown"; separated runs of
\* one speaker stay separate; [(A,hi),(A,there),(B,yo)] gives
\* "A: hi there\n\nB: yo".
C14_Paragraphs ==
    pc = "formatted"
       => /\ text = C14_Expected(entries, 1)
          /\ entries = << [participant |-> "A", text |-> << "hi" >>],
                          [participant |-> "A", text |-> << "there" >>],
                          [participant |-> "B", text |-> << "yo" >>] >>
               => text = << "A", ": ", "hi", " ", "there", "\n\n",
                            "B", ": ", "yo" >>

C14_Witness ==
    /\ pc = "formatted"
    /\ Len(entries) = 3
    /\ entries[1].participant = "A"
    /\ entries[2].participant = ""
    /\ entries[3].participant = "A"
    /\ text = << "A", ": ", "hi", "\n\n", "Unknown", ": ", "there", "\n\n",
                 "A", ": ", "yo" >>

\* line i of transcript t: from behind the (i-1)-th "\n" to the next one
C15_Line(t, i) ==
    LET s == CHOOSE k \in 1..(Len(t) + 1) :
                 /\ k = 1 \/ t[k - 1] = "\n"
                 /\ Cardinality({ j \in 1..(k - 1) : t[j] = "\n" }) = i - 1
        e == CHOOSE k \in s..(Len(t) + 1) :
                 /\ k = Len(t) + 1 \/ t[k] = "\n"
                 /\ \A j \in s..(k - 1) : t[j] # "\n"
    IN  SubSeq(t, s, e - 1)
C15_LineCount(t) == Cardinality({ j \in 1..Len(t) : t[j] = "\n" }) + 1

\* the words of a name, as classes of tokens: the first is a capitalized
\* word, a further one a capitalized word or an initial with its period
C15_FirstWords == { << {"Speaker", "John", "Q"} >> }
C15_Words == C15_FirstWords \cup { << {"Q"}, {"."} >> }
\* a label before its colon: "Speaker <number>", or a name of one to three
\* words
C15_Labels ==
    { << {"Speaker"}, {" "}, {"1"} >> }
    \cup C15_FirstWords
    \cup { w[1] \o << {" "} >> \o w[2] : w \in C15_FirstWords \X C15_Words }
    \cup { w[1] \o << {" "} >> \o w[2] \o << {" "} >> \o w[3] :
             w \in C15_FirstWords \X C15_Words \X C15_Words }

\* line l starts with label lab, a colon behind it
C15_StartsWith(l, lab) ==
    /\ Len(l) > Len(lab)
    /\ \A k \in 1..Len(lab) : l[k] \in lab[k]
    /\ l[Len(lab) + 1] = ":"

\* l without its first n tokens and the blanks that follow them
C15_Without(l, n) ==
    IF Len(l) > n /\ l[n + 1] = " " THEN SubSeq(l, n + 2, Len(l))
    ELSE SubSeq(l, n + 1, Len(l))

\* C15: strip_speaker_labels keeps the number of lines; a line that starts
\* with a label ("Speaker <number>:" or a capitalized name of one to three
\* words, a colon and optional whitespace) loses exactly that label, and
\* every other line is returned unchanged.
C15_StripsLabels ==
    pc = "done"
       => /\ C15_LineCount(outcome.content) = C15_LineCount(text)
          /\ \A i \in 1..C15_LineCount(text) :
                LET l == C15_Line(text, i) IN
                IF \E lab \in C15_Labels : C15_StartsWith(l, lab)
                THEN \E lab \in C15_Labels :
                        /\ C15_StartsWith(l, lab)
                        /\ C15_Line(outcome.content, i)
                              = C15_Without(l, Len(lab) + 1)
                ELSE C15_Line(outcome.content, i) = l

\* C19: get_credentials ends with FileNotFoundError and no credentials when
\* the client configuration is absent, and with RefreshError and no
\* credentials when the refresh of the stored expired token was rejected.
C19_CredentialFailures ==
    \A p \in Procs :
        cred[p].pc = "done"
           => /\ ~config => /\ cred[p].result = "FileNotFoundError"
                            /\ cred[p].creds = NoCreds
              /\ cred[p].rejected => /\ cred[p].result = "RefreshError"
                                     /\ cred[p].creds = NoCreds

\* C20: when the invocations of get_credentials ran one after the other
\* and a token was issued, the token file ends holding the token issued
\* last.  (That overlapping invocations can leave an older token in the
\* file is what C20_Witness reaches.)
C20_SerializedKeepsLatest ==
    ((\A p \in Procs : cred[p].pc = "done") /\ ~overlapped /\ issued > 0)
       => /\ store.kind = "token"
          /\ store.token = issued

C20_Witness ==
    /\ \A p \in Procs : cred[p].pc = "done" /\ cred[p].refreshed
    /\ overlapped
    /\ store.kind = "token"
    /\ store.token > 0
    /\ store.token < issued

\* C21: when the session query was answered with a list and
\* find_conference_record returned, it returned None exactly when no
\* session of the list has a start_time with after <= start_time <= before
\* (both ends included); a session without start_time is never returned.
C21_ResolverComplete ==
    (pc = "find" /\ status = "returned" /\ answered = Answered)
       => /\ (record = NoRecord)
               <=> ~\E i \in 1..Len(records) :
                       /\ records[i].start_time # NoTime
                       /\ after <= records[i].start_time
                       /\ records[i].start_time <= before
          /\ record # NoRecord => record.start_time # NoTime

C21_Witness ==
    /\ pc = "find"
    /\ status = "returned"
    /\ Len(records) = 2
    /\ records[1].start_time = NoTime
    /\ record = records[2]
    /\ record.start_time = before
    /\ after < before

\* the artifact the metadata query returned is in a state other than
\* FILE_GENERATED
NotReadySeen == artifact # NoArtifact /\ artifact.state # "FILE_GENERATED"

\* the error codes of the not-ready verdicts (in progress, processing)
NotReadyCodes == {"transcript_not_ready", "notes_not_ready", "notes_in_progress"}

\* C22: once the metadata query has returned an artifact whose state is not
\* FILE_GENERATED, no remote call follows (no call is pending, the export and
\* the entry listing were never requested, and the only step left ends the
\* invocation without a call) and the invocation ends with a not-ready error.
C22_PolledOnce ==
    [][NotReadySeen
          => /\ status \notin {"call", "sleep"}
             /\ called \cap {"export", "entries"} = {}
             /\ pc \in {"metadata", "done"}
             /\ pc = "done" => outcome.error \in NotReadyCodes
             /\ pc' = "done"
             /\ called' = called
             /\ invocations' <= invocations
             /\ outcome'.error \in NotReadyCodes
             /\ outcome'.state = artifact.state]_vars

C22_Witness ==
    /\ pc = "done"
    /\ script = "transcript"
    /\ artifact.state = "STATE_UNSPECIFIED"
    /\ outcome.error = "transcript_not_ready"
    /\ called = {"credentials", "session_query", "metadata"}

\* C23: for both kinds of artifact an invocation that observed STARTED or
\* ENDED ends with the error kind of ArtifactNotReady (transcript_not_ready,
\* notes_not_ready); the two states differ in the message only.
C23_SameErrorKind ==
    (pc = "done" /\ artifact # NoArtifact /\ artifact.state \in {"STARTED", "ENDED"})
       => outcome.error = (IF script = "transcript" THEN "transcript_not_ready"
                                                    ELSE "notes_not_ready")

\* the error an invocation ends with at the metadata stage when the first
\* artifact of the list is a ("" when it goes on to fetch the content)
C24_ErrorOf(a) ==
    IF a.state # "FILE_GENERATED"
    THEN IF script = "transcript" THEN "transcript_not_ready"
         ELSE IF a.state = "STARTED" THEN "notes_in_progress"
         ELSE "notes_not_ready"
    ELSE IF script = "notes" /\ a.dest \notin {"doc", "doc_uri"}
    THEN "notes_fetch_error"
    ELSE ""

\* C24: when the metadata query returned an empty list the invocation ends
\* with no_transcript / no_smart_notes (not a not-ready code) and neither the
\* export nor the entry listing is requested; when it returned a list of one
\* or more artifacts, the artifact main works on is the first of the list and
\* the error, the reported state, the stage that follows and the document URL
\* are those of the first artifact, whatever follows it in the list.
C24_AbsentAndFirst ==
    (listed # NoList)
       => /\ listed = << >>
               => /\ artifact = NoArtifact
                  /\ pc \in {"metadata", "done"}
                  /\ called \cap {"export", "entries"} = {}
                  /\ pc = "done"
                       => /\ outcome.error = (IF script = "transcript"
                                              THEN "no_transcript"
                                              ELSE "no_smart_notes")
                          /\ outcome.error \notin NotReadyCodes
          /\ listed # << >>
               => /\ artifact = listed[1]
                  /\ pc \in {"metadata", "done", "export", "entries"}
                  /\ pc = "done"
                       => /\ outcome.error = C24_ErrorOf(listed[1])
                          /\ outcome.error # ""
                          /\ outcome.state = listed[1].state
                  /\ pc \in {"export", "entries"}
                       => /\ C24_ErrorOf(listed[1]) = ""
                          /\ outcome = NoOutcome
                          /\ called \cap {"export", "entries"} = {}
                  /\ pc = "export"
                       => /\ listed[1].dest \in {"doc", "doc_uri"}
                          /\ doc_url = (IF listed[1].dest = "doc_uri"
                                        THEN "export_uri" ELSE "edit_url")
                  /\ pc = "entries" => listed[1].dest \in {"none", "nodoc"}

C24_Witness ==
    /\ pc = "done"
    /\ script = "transcript"
    /\ Len(listed) = 2
    /\ listed[1].state = "STARTED"
    /\ listed[2] = [state |-> "FILE_GENERATED", dest |-> "doc"]
    /\ outcome.error = "transcript_not_ready"

\* C25: in the notes flow a 404 of the smartNotes request whose message holds
\* "Method not found" ends the invocation with api_not_available, and a 404
\* without it ends the invocation as an empty list does, with no_smart_notes.
C25_NotFoundKinds ==
    (script = "notes" /\ pc = "done" /\ called = {"credentials", "session_query", "metadata"})
       => /\ answered = << "404_method", 0 >>
               => outcome.error = "api_not_available"
          /\ answered \in { << "404", 0 >>, << "404_nojson", 0 >> }
               => outcome.error = "no_smart_notes"

\* C26: when get_transcript_entries returned an empty list (every page of
\* the listing was empty), the invocation ends with transcript_empty; when it
\* returned entries, the content found is not empty; no transcript invocation
\* ends as found with empty content.
C26_EmptyFallback ==
    [][/\ (pc = "entries" /\ status = "returned")
          => /\ pc' = "done"
             /\ IF entries = << >>
                THEN /\ ~outcome'.found
                     /\ outcome'.error = "transcript_empty"
                     /\ outcome'.exit = 1
                ELSE /\ outcome'.found
                     /\ outcome'.content # << >>
       /\ (script = "transcript" /\ outcome'.found) => outcome'.content # << >>]_vars

C26_Witness ==
    /\ pc = "done"
    /\ outcome.error = "transcript_empty"
    /\ called = {"credentials", "session_query", "metadata", "export", "entries"}

\* the pages ps one after the other
RECURSIVE C27_Concat(_)
C27_Concat(ps) ==
    IF ps = << >> THEN << >> ELSE Head(ps) \o C27_Concat(Tail(ps))

C28_PageRetriedAlone ==
    (pc = "entries" /\ status = "call") => pages = fetched

\* C29: the session query is made only with credentials, the metadata query
\* only for a session the session query returned, the export only for an
\* artifact seen in state FILE_GENERATED with a document id, the entry
\* listing only by get_transcript.py and after FILE_GENERATED was seen; once
\* the invocation has ended nothing is called and nothing changes.
C29_StageOrder ==
    [][/\ called' \ {"credentials"} # {}
          => /\ "credentials" \in called'
             /\ outcome'.error \notin {"auth_config_missing", "auth_refresh_failed"}
       /\ (pc' \notin {"parse", "auth"} /\ "session_query" \notin called')
          => pc' = "done" \/ (pc' = "find" /\ status' = "call" /\ invocations' = 0)
       /\ "metadata" \in called'
          => /\ "session_query" \in called
             /\ record # NoRecord
             /\ record' = record
       /\ "export" \in called'
          => /\ "metadata" \in called
             /\ artifact.state = "FILE_GENERATED"
             /\ artifact.dest \in {"doc", "doc_uri"}
             /\ artifact' = artifact
       /\ "entries" \in called'
          => /\ script = "transcript"
             /\ "metadata" \in called
             /\ artifact.state = "FILE_GENERATED"
             /\ artifact' = artifact
       /\ called' # called => status \in {"idle", "call"}
       /\ invocations' > invocations => (called' \ called # {} \/ status = "call")
       /\ pc # "done"
       /\ pc' = "done" => status' \notin {"call", "sleep"}]_vars

C29_Witness ==
    /\ pc = "done"
    /\ outcome.found
    /\ called = {"credentials", "session_query", "metadata", "export", "entries"}

\* C30: in the transcript flow an export that failed otherwise than by a
\* denial (not found, a failure that is not retried, a retryable failure
\* after the last retry) does not end the invocation: the next step makes
\* the entry listing the pending call; transcript_fetch_error is reported
\* only by an invocation whose entry listing failed.
C30_ExportFailureFallsBack ==
    [][/\ (script = "transcript" /\ pc = "export" /\ status = "raised"
           /\ answered \notin { << "HttpError", 403 >>, << "PermissionDenied", 0 >> })
          => /\ pc' = "entries"
             /\ status' = "call"
             /\ outcome' = NoOutcome
       /\ outcome'.error = "transcript_fetch_error"
          => /\ pc = "entries"
             /\ status = "raised"
             /\ "entries" \in called]_vars

C30_Witness ==
    /\ script = "transcript"
    /\ pc = "export"
    /\ status = "raised"
    /\ raised.type = "ServiceUnavailable"
    /\ invocations = MAX_RETRIES + 1

\* C31: in the transcript flow an export that returned empty text does not
\* end the invocation: the entry listing becomes the pending call and the
\* document URL is kept; when the listing returns after an export was
\* requested, the outcome is transcript_empty for an empty list and otherwise
\* a found outcome whose content is the formatted entries and whose doc_url
\* is the URL of the exported document.
C31_EmptyExportFallsBack ==
    [][/\ (script = "transcript" /\ pc = "export" /\ status = "returned"
           /\ text = << >>)
          => /\ pc' = "entries"
             /\ status' = "call"
             /\ outcome' = NoOutcome
             /\ doc_url' = doc_url
             /\ doc_url # ""
       /\ (pc = "entries" /\ status = "returned" /\ "export" \in called)
          => /\ pc' = "done"
             /\ IF entries = << >>
                THEN outcome'.error = "transcript_empty"
                ELSE /\ outcome'.found
                     /\ outcome'.content = format_entries_as_text(entries)
                     /\ outcome'.content # << >>
                     /\ outcome'.doc_url = doc_url
                     /\ doc_url = DocUrl(artifact)
                     /\ doc_url # ""]_vars

C31_Witness ==
    /\ script = "transcript"
    /\ pc = "export"
    /\ status = "returned"
    /\ text = << >>
    /\ doc_url = "export_uri"
    /\ invocations = 2

\* C32: the wrapper counts its passes with one counter whatever except clause
\* took the failure: the function has been invoked attempt + 1 times once a
\* pass is over, never more than 1 + max_retries times; a retried failure of
\* any class that follows an earlier retried failure is followed by a sleep
\* exactly when attempt < max_retries; and when the wrapper has returned or
\* raised, it has slept once less than it has invoked the function.
C32_SharedBudget ==
    [][InWrapper
          => /\ invocations <= 1 + MAX_RETRIES
             /\ attempt <= MAX_RETRIES
             /\ invocations = (IF status = "call" THEN attempt ELSE attempt + 1)
             /\ status \in {"returned", "raised"}
                  => Len(sleeps) = invocations - 1
             /\ (status = "call" /\ last_exception # NoExc /\ invocations' > invocations
                 /\ IsRetried(script, observed'))
                  => /\ invocations' = invocations + 1
                     /\ status' = (IF attempt < MAX_RETRIES THEN "sleep" ELSE "raised")
                     /\ attempt' = attempt]_vars

C32_Witness ==
    /\ status = "raised"
    /\ raised.type = "ResourceExhausted"
    /\ raised.at = 1 + MAX_RETRIES
    /\ invocations = 1 + MAX_RETRIES
    /\ Len(sleeps) = MAX_RETRIES

\* C33: every invocation ends: it reaches the point where main is over, with
\* an outcome, provided every step is taken in the end and a pending listing
\* request is in the end answered with a page without continuation token.
C33_Terminates == <>(pc = "done" /\ outcome # NoOutcome)

C33_Witness ==
    /\ script = "transcript"
    /\ pc = "done"
    /\ outcome.found
    /\ called = {"credentials", "session_query", "metadata", "export", "entries"}

=============================================================================
